---------------------------- MODULE Spec2Model ----------------------------
(***************************************************************************)
(* Model of src/app.py (extractTabtoPDF): the three table-extraction       *)
(* backends, the content filter they share, sanitize_columns and the       *)
(* orchestrator process_pdf with its temporary file.                       *)
(*                                                                         *)
(* A string is a sequence of atoms.  Column labels are spelled character   *)
(* by character; the words of the marker are atoms as a whole.  Joining    *)
(* and formatting are sequence concatenation, substring search is          *)
(* sub-sequence search.                                                    *)
(***************************************************************************)
EXTENDS Naturals, Sequences, FiniteSets, TLC

VARIABLES
    pc,                         \* position inside process_pdf
    avail,                      \* PYMUPDF_AVAILABLE, PDFPLUMBER_AVAILABLE, TABULA_AVAILABLE
    tmpExists,                  \* the file at tmp_file_path exists on disk
    resultats_intermediaires,   \* local of process_pdf
    total_tables,               \* local of process_pdf
    method_used,                \* local of process_pdf
    csv_files,                  \* local of process_pdf
    ret,                        \* what process_pdf handed to its caller
    hist,                       \* per backend: how its call ended
    invoked,                    \* backends called so far, in call order
    markerSeen,                 \* some table a backend found held the marker in a data row
    pkgFailed,                  \* the outer except clause ran
    sanIn, sanOut, sanDone,     \* sanitize_columns applied to a drawn header
    fTable, fBackend, fKept,    \* one backend's filter applied to a drawn table
    bView, bBackend, bOut       \* one backend run on a drawn document

vars == << pc, avail, tmpExists, resultats_intermediaires, total_tables,
           method_used, csv_files, ret, hist, invoked, markerSeen,
           pkgFailed, sanIn, sanOut, sanDone, fTable, fBackend, fKept,
           bView, bBackend, bOut >>

mainVars == << pc, avail, tmpExists, resultats_intermediaires, total_tables,
               method_used, csv_files, ret, hist, invoked,
               markerSeen, pkgFailed >>
sanVars == << sanIn, sanOut, sanDone >>
filterVars == << fTable, fBackend, fKept >>
runVars == << bView, bBackend, bOut >>

-----------------------------------------------------------------------------
(* Bounds *)

MaxCols == 3        \* longest header drawn for sanitize_columns
MaxRows == 2        \* most rows (header row included) of a table drawn for the filter
MaxTables == 2      \* most tables one backend finds in a document
NumPages == 2       \* pages of a document

-----------------------------------------------------------------------------
(* Strings *)

SeqsUpTo(S, n) == UNION { [1..k -> S] : k \in 0..n }

Range(s) == { s[i] : i \in 1..Len(s) }

\* str(n) for a natural number
DigitChars == << "0", "1", "2", "3", "4", "5", "6", "7", "8", "9" >>
RECURSIVE Digits(_)
Digits(n) == IF n < 10 THEN << DigitChars[n + 1] >>
             ELSE Digits(n \div 10) \o << DigitChars[(n % 10) + 1] >>

\* sep.join(parts)
RECURSIVE Join(_, _)
Join(parts, sep) ==
    IF parts = << >> THEN << >>
    ELSE IF Len(parts) = 1 THEN parts[1]
    ELSE parts[1] \o sep \o Join(Tail(parts), sep)

\* needle in hay
Contains(hay, needle) ==
    \E i \in 0..Len(hay) :
        /\ i + Len(needle) <= Len(hay)
        /\ SubSeq(hay, i + 1, i + Len(needle)) = needle

SPACE == << " " >>
Marker == << "Consommation", " ", "totale", " ", "électrique" >>

\* A cell or a column label that is None / NaN instead of a string.
NoneVal == << "<None>" >>
NaNVal == << "<NaN>" >>

\* str(x), as DataFrame.astype(str) applies it to a cell
StrOf(x) == IF x = NoneVal THEN << "None" >>
            ELSE IF x = NaNVal THEN << "nan" >>
            ELSE x

-----------------------------------------------------------------------------
(* sanitize_columns *)

Falsy(col) == col = << >> \/ col = NoneVal          \* not col
IsNa(col) == col = NoneVal \/ col = NaNVal          \* pd.isna(col)

ColPrefix == << "c", "o", "l", "_" >>
UNDERSCORE == << "_" >>

\* One pass of the for loop over enumerate(df.columns), i counted from 0;
\* seen is the dict of the code, a function on the labels met so far.
RECURSIVE SanLoop(_, _, _, _)
SanLoop(columns, i, cols, seen) ==
    IF i >= Len(columns) THEN cols
    ELSE LET raw == columns[i + 1]
             col == IF Falsy(raw) \/ IsNa(raw) THEN ColPrefix \o Digits(i) ELSE raw
         IN  IF col \in DOMAIN seen
             THEN LET n == seen[col] + 1
                  IN  SanLoop(columns, i + 1,
                              Append(cols, col \o UNDERSCORE \o Digits(n)),
                              [seen EXCEPT ![col] = n])
             ELSE SanLoop(columns, i + 1, Append(cols, col),
                          [k \in DOMAIN seen \cup {col} |->
                              IF k = col THEN 0 ELSE seen[k]])

sanitize_columns(columns) == SanLoop(columns, 0, << >>, [k \in {} |-> 0])

-----------------------------------------------------------------------------
(* Tables and the content filter *)

\* A table as a backend finds it in the document: grid is its rows, the
\* header row first; conv tells whether turning it into a DataFrame succeeds
\* (table.to_pandas(), pd.DataFrame(table[1:], columns=table[0])); csvOk
\* tells whether its cells can be written as UTF-8 CSV.

\* The DataFrame made of a grid: the first row becomes the column labels.
ToFrame(t) ==
    IF t.grid = << >>
    THEN [columns |-> << >>, rows |-> << >>, csvOk |-> t.csvOk]
    ELSE [columns |-> Head(t.grid), rows |-> Tail(t.grid), csvOk |-> t.csvOk]

\* df.empty
df_empty(df) == Len(df.columns) = 0 \/ Len(df.rows) = 0

\* ' '.join(x) for one row x of df.astype(str)
RowStr(row) == Join([j \in 1..Len(row) |-> StrOf(row[j])], SPACE)

\* Plausible slip: the column labels are serialized with the rows.
table_str_with_header(df) ==
    Join([i \in 1..(Len(df.rows) + 1) |->
             IF i = 1 THEN RowStr(df.columns) ELSE RowStr(df.rows[i - 1])], SPACE)

\* df.astype(str).apply(lambda x: ' '.join(x), axis=1).str.cat(sep=' ')
table_str(df) == Join([i \in 1..Len(df.rows) |-> RowStr(df.rows[i])], SPACE)

\* "Consommation totale électrique" in table_str
HasMarker(df) == Contains(table_str(df), Marker)

\* Plausible slip: every table that converts and is not empty is kept.
PyMuPDFKeepsAll(t) ==
    /\ t.conv
    /\ ~df_empty(ToFrame(t))

\* Body of "for table in tables" of process_pdf_with_pymupdf: an exception
\* inside the try is swallowed by "continue".
PyMuPDFKeeps(t) ==
    /\ t.conv
    /\ ~df_empty(ToFrame(t))
    /\ HasMarker(ToFrame(t))

\* Body of "for table in tables" of process_pdf_with_pdfplumber.
PdfplumberKeeps(t) ==
    /\ t.grid # << >> /\ Len(t.grid) > 1
    /\ t.conv
    /\ HasMarker(ToFrame(t))

\* Body of "for i, table in enumerate(tables)" of process_pdf_with_tabula:
\* tabula hands over DataFrames, nothing is converted here.
TabulaKeeps(t) ==
    /\ ~df_empty(ToFrame(t))
    /\ HasMarker(ToFrame(t))

Backends == << "PyMuPDF", "pdfplumber", "tabula" >>
BackendSet == Range(Backends)

Keeps(b, t) == IF b = "PyMuPDF" THEN PyMuPDFKeeps(t)
               ELSE IF b = "pdfplumber" THEN PdfplumberKeeps(t)
               ELSE TabulaKeeps(t)

-----------------------------------------------------------------------------
(* The backends *)

\* What a backend finds in the document: entries [page, tbl] in page order.
PageTables(view, p) == SelectSeq(view, LAMBDA e : e.page = p)

Match(num, t) == [num |-> num, df |-> ToFrame(t)]

\* Plausible slip: the try stands around the for loop, so a table that fails
\* to convert ends the loop over its page.
RECURSIVE PageLoopAbort(_, _, _, _)
PageLoopAbort(b, p, tables, res) ==
    IF tables = << >> THEN res
    ELSE IF ~Head(tables).tbl.conv THEN res
    ELSE PageLoopAbort(b, p, Tail(tables),
                       IF Keeps(b, Head(tables).tbl)
                       THEN Append(res, Match(p, Head(tables).tbl))
                       ELSE res)

\* for table in tables: ... resultats_intermediaires.append((page_num, df))
RECURSIVE PageLoop(_, _, _, _)
PageLoop(b, p, tables, res) ==
    IF tables = << >> THEN res
    ELSE PageLoop(b, p, Tail(tables),
                  IF Keeps(b, Head(tables).tbl)
                  THEN Append(res, Match(p, Head(tables).tbl))
                  ELSE res)

\* for page_num in range(len(doc)): total_tables += len(tables); ...
RECURSIVE DocLoop(_, _, _, _, _)
DocLoop(b, view, p, res, total) ==
    IF p >= NumPages THEN [res |-> res, total |-> total]
    ELSE LET tables == PageTables(view, p)
         IN  DocLoop(b, view, p + 1, PageLoop(b, p, tables, res),
                     total + Len(tables))

process_pdf_with_pymupdf(view) == DocLoop("PyMuPDF", view, 0, << >>, 0)

process_pdf_with_pdfplumber(view) == DocLoop("pdfplumber", view, 0, << >>, 0)

\* for i, table in enumerate(tables): ... append((i, table))
RECURSIVE TabulaLoop(_, _, _)
TabulaLoop(tables, i, res) ==
    IF i >= Len(tables) THEN res
    ELSE TabulaLoop(tables, i + 1,
                    IF TabulaKeeps(tables[i + 1].tbl)
                    THEN Append(res, Match(i, tables[i + 1].tbl))
                    ELSE res)

process_pdf_with_tabula(view) ==
    [res |-> TabulaLoop(view, 0, << >>), total |-> Len(view)]

-----------------------------------------------------------------------------
(* Result packaging helpers *)

Unique(seq) == \A i, j \in 1..Len(seq) : i # j => seq[i] # seq[j]

\* Column labels of pd.concat: the union, in order of first appearance.
RECURSIVE UnionCols(_, _)
UnionCols(frames, acc) ==
    IF frames = << >> THEN acc
    ELSE UnionCols(Tail(frames),
                   acc \o SelectSeq(Head(frames).columns,
                                    LAMBDA c : c \notin Range(acc)))

\* The rows of df laid out under the labels ucols, NaN where df has no such column.
Reindexed(df, ucols) ==
    [i \in 1..Len(df.rows) |->
        [j \in 1..Len(ucols) |->
            IF \E k \in 1..Len(df.columns) : df.columns[k] = ucols[j]
            THEN df.rows[i][CHOOSE k \in 1..Len(df.columns) : df.columns[k] = ucols[j]]
            ELSE NaNVal]]

RECURSIVE StackRows(_, _)
StackRows(frames, ucols) ==
    IF frames = << >> THEN << >>
    ELSE (IF Head(frames).columns = ucols THEN Head(frames).rows
          ELSE Reindexed(Head(frames), ucols)) \o StackRows(Tail(frames), ucols)

SameColumns(frames) == \A i, j \in 1..Len(frames) : frames[i].columns = frames[j].columns

\* pd.concat raises when frames with different labels must be aligned and one
\* of them has a repeated label.
ConcatOk(frames) ==
    SameColumns(frames) \/ \A i \in 1..Len(frames) : Unique(frames[i].columns)

\* pd.concat(frames, ignore_index=True)
Concat(frames) ==
    LET ucols == IF SameColumns(frames) THEN frames[1].columns
                 ELSE UnionCols(frames, << >>)
    IN  [columns |-> ucols, rows |-> StackRows(frames, ucols), csvOk |-> TRUE]

TableauName(idx) == << "consommation_tableau_" >> \o Digits(idx) \o << ".csv" >>
CombineName == << "consommation_combine.csv" >>

-----------------------------------------------------------------------------
(* Documents drawn for process_pdf *)

LblA == << "A" >>
LblB == << "B" >>
LblA1 == << "A", "_", "1" >>
Kwh == << "kWh" >>
MarkHead == << "Consommation", " ", "totale" >>
MarkTail == << "électrique" >>

Tbl(g, c, s) == [grid |-> g, conv |-> c, csvOk |-> s]

TableCat ==
    { Tbl(<< <<LblA, LblB>>, <<MarkHead, MarkTail>> >>, TRUE, TRUE),
      Tbl(<< <<LblA, LblB>>, <<Marker, Kwh>>, <<Kwh, Kwh>> >>, TRUE, TRUE),
      Tbl(<< <<LblA, LblB>>, <<Kwh, Kwh>> >>, TRUE, TRUE),
      Tbl(<< <<Marker, LblB>>, <<Kwh, Kwh>> >>, TRUE, TRUE),
      Tbl(<< <<LblA, LblA, LblA1>>, <<Marker, Kwh, Kwh>> >>, TRUE, TRUE),
      Tbl(<< <<LblA, << >> >>, <<Marker, Kwh>> >>, TRUE, TRUE),
      Tbl(<< <<LblA, LblB>>, <<Marker, Kwh>>, <<Kwh, Kwh>> >>, TRUE, FALSE) }

PageNums == 0..(NumPages - 1)

\* The documents process_pdf is run on hold one table per page, the tables
\* beyond the last page on the last page.
PageOf(i) == IF i <= NumPages THEN i - 1 ELSE NumPages - 1

Views ==
    { [i \in 1..Len(s) |-> [page |-> PageOf(i), tbl |-> s[i]]] :
        s \in SeqsUpTo(TableCat, MaxTables) }

-----------------------------------------------------------------------------
(* process_pdf *)

NoRet == [kind |-> "none", files |-> << >>, total |-> 0, found |-> 0]
Returned(files, total, found) ==
    [kind |-> "returned", files |-> files, total |-> total, found |-> found]
Raised == [kind |-> "raised", files |-> << >>, total |-> 0, found |-> 0]

NoHist == [b \in BackendSet |-> [out |-> "notyet", n |-> 0, total |-> 0]]

NoTable == Tbl(<< >>, FALSE, FALSE)

SanOff == sanIn = << >> /\ sanOut = << >> /\ sanDone = FALSE
FilterOff == fTable = NoTable /\ fBackend = "none" /\ fKept = FALSE
NoOut == [res |-> << >>, total |-> 0]
RunOff == bView = << >> /\ bBackend = "none" /\ bOut = NoOut

Locals(p) ==
    /\ pc = p
    /\ tmpExists = FALSE
    /\ resultats_intermediaires = << >>
    /\ total_tables = 0
    /\ method_used = ""
    /\ csv_files = << >>
    /\ ret = NoRet
    /\ hist = NoHist
    /\ invoked = << >>
    /\ markerSeen = FALSE
    /\ pkgFailed = FALSE

Init ==
    /\ avail \in [BackendSet -> BOOLEAN]
    /\ Locals("start")
    /\ SanOff
    /\ FilterOff
    /\ RunOff

\* with tempfile.NamedTemporaryFile(delete=False, suffix='.pdf') as tmp_file:
\*     tmp_file.write(uploaded_file.getvalue())
\* The file exists as soon as it is opened; getvalue() or write() may raise,
\* and this block stands before the try whose finally unlinks the file.
Upload ==
    /\ pc = "start"
    /\ tmpExists' = TRUE
    /\ \E ok \in BOOLEAN :
          IF ok THEN /\ pc' = "pymupdf"
                     /\ ret' = ret
                ELSE /\ pc' = "done"
                     /\ ret' = Raised
    /\ UNCHANGED << avail, resultats_intermediaires, total_tables, method_used,
                    csv_files, hist, invoked, markerSeen, pkgFailed >>
    /\ UNCHANGED << sanVars, filterVars, runVars >>

Extract(b, view) ==
    IF b = "PyMuPDF" THEN process_pdf_with_pymupdf(view)
    ELSE IF b = "pdfplumber" THEN process_pdf_with_pdfplumber(view)
    ELSE process_pdf_with_tabula(view)

\* History only: which backend produced a match.
Tagged(res, b) == [i \in 1..Len(res) |-> [num |-> res[i].num, df |-> res[i].df, src |-> b]]

ViewHasMarker(view) ==
    \E i \in 1..Len(view) : Contains(table_str(ToFrame(view[i].tbl)), Marker)

\* The backend is not called.
SkipBackend(b, next) ==
    /\ pc' = next
    /\ hist' = [hist EXCEPT ![b].out = "skipped"]
    /\ UNCHANGED << resultats_intermediaires, total_tables, method_used,
                    invoked, markerSeen >>

\* Plausible slip: a backend that raises ends the fallback chain.
CallBackendFatal(b, next) ==
    /\ invoked' = Append(invoked, b)
    /\ \E raises \in BOOLEAN :
          IF raises
          THEN /\ pc' = "check"
               /\ hist' = [hist EXCEPT ![b].out = "raised"]
               /\ UNCHANGED << resultats_intermediaires, total_tables,
                               method_used, markerSeen >>
          ELSE \E view \in Views :
                 LET r == Extract(b, view)
                 IN  /\ pc' = next
                     /\ resultats_intermediaires' = Tagged(r.res, b)
                     /\ total_tables' = r.total
                     /\ method_used' = b
                     /\ hist' = [hist EXCEPT ![b] =
                                   [out |-> "returned", n |-> Len(r.res),
                                    total |-> r.total]]
                     /\ markerSeen' = (markerSeen \/ ViewHasMarker(view))

\* Plausible slip: the backend's table count is dropped.
CallBackendStaleTotal(b, next) ==
    /\ pc' = next
    /\ invoked' = Append(invoked, b)
    /\ \E raises \in BOOLEAN :
          IF raises
          THEN /\ hist' = [hist EXCEPT ![b].out = "raised"]
               /\ UNCHANGED << resultats_intermediaires, total_tables,
                               method_used, markerSeen >>
          ELSE \E view \in Views :
                 LET r == Extract(b, view)
                 IN  /\ resultats_intermediaires' = Tagged(r.res, b)
                     /\ total_tables' = total_tables
                     /\ method_used' = b
                     /\ hist' = [hist EXCEPT ![b] =
                                   [out |-> "returned", n |-> Len(r.res),
                                    total |-> r.total]]
                     /\ markerSeen' = (markerSeen \/ ViewHasMarker(view))

\* try: resultats_intermediaires, total_tables = process_pdf_with_X(tmp_file_path)
\*      method_used = "X"
\* except Exception: st.warning(...)
CallBackend(b, next) ==
    /\ pc' = next
    /\ invoked' = Append(invoked, b)
    /\ \E raises \in BOOLEAN :
          IF raises
          THEN /\ hist' = [hist EXCEPT ![b].out = "raised"]
               /\ UNCHANGED << resultats_intermediaires, total_tables,
                               method_used, markerSeen >>
          ELSE \E view \in Views :
                 LET r == Extract(b, view)
                 IN  /\ resultats_intermediaires' = Tagged(r.res, b)
                     /\ total_tables' = r.total
                     /\ method_used' = b
                     /\ hist' = [hist EXCEPT ![b] =
                                   [out |-> "returned", n |-> Len(r.res),
                                    total |-> r.total]]
                     /\ markerSeen' = (markerSeen \/ ViewHasMarker(view))

\* if PYMUPDF_AVAILABLE: ...
TryPyMuPDF ==
    /\ pc = "pymupdf"
    /\ IF avail["PyMuPDF"]
       THEN CallBackend("PyMuPDF", "pdfplumber")
       ELSE SkipBackend("PyMuPDF", "pdfplumber")
    /\ UNCHANGED << avail, tmpExists, csv_files, ret, pkgFailed >>
    /\ UNCHANGED << sanVars, filterVars, runVars >>

\* Plausible slip: pdfplumber runs whenever it is installed.
TryPdfplumberUnguarded ==
    /\ pc = "pdfplumber"
    /\ IF avail["pdfplumber"]
       THEN CallBackend("pdfplumber", "tabula")
       ELSE SkipBackend("pdfplumber", "tabula")
    /\ UNCHANGED << avail, tmpExists, csv_files, ret, pkgFailed >>
    /\ UNCHANGED << sanVars, filterVars, runVars >>

\* if not resultats_intermediaires and PDFPLUMBER_AVAILABLE: ...
TryPdfplumber ==
    /\ pc = "pdfplumber"
    /\ IF resultats_intermediaires = << >> /\ avail["pdfplumber"]
       THEN CallBackend("pdfplumber", "tabula")
       ELSE SkipBackend("pdfplumber", "tabula")
    /\ UNCHANGED << avail, tmpExists, csv_files, ret, pkgFailed >>
    /\ UNCHANGED << sanVars, filterVars, runVars >>

\* if not resultats_intermediaires and TABULA_AVAILABLE: ...
TryTabula ==
    /\ pc = "tabula"
    /\ IF resultats_intermediaires = << >> /\ avail["tabula"]
       THEN CallBackend("tabula", "check")
       ELSE SkipBackend("tabula", "check")
    /\ UNCHANGED << avail, tmpExists, csv_files, ret, pkgFailed >>
    /\ UNCHANGED << sanVars, filterVars, runVars >>

\* if not resultats_intermediaires: ... return [], total_tables, 0
CheckResults ==
    /\ pc = "check"
    /\ IF resultats_intermediaires = << >>
       THEN /\ ret' = Returned(<< >>, total_tables, 0)
            /\ pc' = "finally"
       ELSE /\ ret' = ret
            /\ pc' = "package"
    /\ csv_files' = << >>
    /\ UNCHANGED << avail, tmpExists, resultats_intermediaires, total_tables,
                    method_used, hist, invoked, markerSeen, pkgFailed >>
    /\ UNCHANGED << sanVars, filterVars, runVars >>

\* Plausible slip: the except clause hands back the files written so far.
PackageOnePartial ==
    /\ pc = "package"
    /\ Len(csv_files) < Len(resultats_intermediaires)
    /\ LET idx == Len(csv_files) + 1
           m == resultats_intermediaires[idx]
           df == [m.df EXCEPT !.columns = sanitize_columns(m.df.columns)]
       IN  /\ resultats_intermediaires' =
                 [resultats_intermediaires EXCEPT ![idx].df = df]
           /\ IF df.csvOk
              THEN /\ csv_files' = Append(csv_files,
                          [name |-> TableauName(idx), dataframe |-> df, src |-> m.src])
                   /\ UNCHANGED << pc, ret, pkgFailed >>
              ELSE /\ ret' = Returned(csv_files, 0, 0)
                   /\ pkgFailed' = TRUE
                   /\ pc' = "finally"
                   /\ UNCHANGED csv_files
    /\ UNCHANGED << avail, tmpExists, total_tables, method_used, hist, invoked,
                    markerSeen >>
    /\ UNCHANGED << sanVars, filterVars, runVars >>

\* One pass of "for idx, (table_num, df) in enumerate(resultats_intermediaires,
\* start=1)": sanitize_columns renames the columns of df in place, to_csv may
\* raise, which the outer except turns into return [], 0, 0.
PackageOne ==
    /\ pc = "package"
    /\ Len(csv_files) < Len(resultats_intermediaires)
    /\ LET idx == Len(csv_files) + 1
           m == resultats_intermediaires[idx]
           df == [m.df EXCEPT !.columns = sanitize_columns(m.df.columns)]
       IN  /\ resultats_intermediaires' =
                 [resultats_intermediaires EXCEPT ![idx].df = df]
           /\ IF df.csvOk
              THEN /\ csv_files' = Append(csv_files,
                          [name |-> TableauName(idx), dataframe |-> df, src |-> m.src])
                   /\ UNCHANGED << pc, ret, pkgFailed >>
              ELSE /\ ret' = Returned(<< >>, 0, 0)
                   /\ pkgFailed' = TRUE
                   /\ pc' = "finally"
                   /\ UNCHANGED csv_files
    /\ UNCHANGED << avail, tmpExists, total_tables, method_used, hist, invoked,
                    markerSeen >>
    /\ UNCHANGED << sanVars, filterVars, runVars >>

Frames(res) == [i \in 1..Len(res) |-> res[i].df]

\* Plausible slip: the combined file is built as soon as there is a match.
PackageCombineAlways ==
    /\ pc = "package"
    /\ Len(csv_files) = Len(resultats_intermediaires)
    /\ IF Len(resultats_intermediaires) > 0
          /\ ConcatOk(Frames(resultats_intermediaires))
       THEN csv_files' = Append(csv_files,
                [name |-> CombineName,
                 dataframe |-> Concat(Frames(resultats_intermediaires)),
                 src |-> "combined"])
       ELSE UNCHANGED csv_files
    /\ pc' = "return"
    /\ UNCHANGED << avail, tmpExists, resultats_intermediaires, total_tables,
                    method_used, ret, hist, invoked, markerSeen,
                    pkgFailed >>
    /\ UNCHANGED << sanVars, filterVars, runVars >>

\* if len(resultats_intermediaires) > 1: try: fusionne = pd.concat(...) ...
\* except Exception: st.warning(...)
PackageCombine ==
    /\ pc = "package"
    /\ Len(csv_files) = Len(resultats_intermediaires)
    /\ IF Len(resultats_intermediaires) > 1
          /\ ConcatOk(Frames(resultats_intermediaires))
       THEN csv_files' = Append(csv_files,
                [name |-> CombineName,
                 dataframe |-> Concat(Frames(resultats_intermediaires)),
                 src |-> "combined"])
       ELSE UNCHANGED csv_files
    /\ pc' = "return"
    /\ UNCHANGED << avail, tmpExists, resultats_intermediaires, total_tables,
                    method_used, ret, hist, invoked, markerSeen,
                    pkgFailed >>
    /\ UNCHANGED << sanVars, filterVars, runVars >>

\* return csv_files, total_tables, len(resultats_intermediaires)
ReturnFiles ==
    /\ pc = "return"
    /\ ret' = Returned(csv_files, total_tables, Len(resultats_intermediaires))
    /\ pc' = "finally"
    /\ UNCHANGED << avail, tmpExists, resultats_intermediaires, total_tables,
                    method_used, csv_files, hist, invoked, markerSeen,
                    pkgFailed >>
    /\ UNCHANGED << sanVars, filterVars, runVars >>

\* finally: try: os.unlink(tmp_file_path) except: pass
Finally ==
    /\ pc = "finally"
    /\ tmpExists' = FALSE
    /\ pc' = "done"
    /\ UNCHANGED << avail, resultats_intermediaires, total_tables, method_used,
                    csv_files, ret, hist, invoked, markerSeen,
                    pkgFailed >>
    /\ UNCHANGED << sanVars, filterVars, runVars >>

Next ==
    \/ Upload
    \/ TryPyMuPDF
    \/ TryPdfplumber
    \/ TryTabula
    \/ CheckResults
    \/ PackageOne
    \/ PackageCombine
    \/ ReturnFiles
    \/ Finally

Spec == Init /\ [][Next]_vars

-----------------------------------------------------------------------------
(* sanitize_columns on drawn headers *)

AllOff == [b \in BackendSet |-> FALSE]

LabelSet == { << >>, NoneVal, NaNVal, LblA, LblB, LblA1, ColPrefix \o << "1" >> }

SanInit ==
    /\ avail = AllOff
    /\ Locals("off")
    /\ FilterOff
    /\ RunOff
    /\ sanIn \in SeqsUpTo(LabelSet, MaxCols)
    /\ sanOut = << >>
    /\ sanDone = FALSE

\* df.columns = cols, after the loop of sanitize_columns
SanApply ==
    /\ ~sanDone
    /\ sanOut' = sanitize_columns(sanIn)
    /\ sanDone' = TRUE
    /\ UNCHANGED << sanIn, mainVars, filterVars, runVars >>

SanNext == SanApply

SpecSan == SanInit /\ [][SanNext]_vars

-----------------------------------------------------------------------------
(* The content filter on drawn tables *)

LowerHead == << "consommation", " ", "totale" >>

FilterCells == { << >>, NoneVal, Marker, MarkHead, MarkTail, LowerHead }

FilterRows == { << a, b >> : a \in FilterCells, b \in FilterCells }

FilterTables ==
    { Tbl(g, c, TRUE) : g \in SeqsUpTo(FilterRows, MaxRows), c \in BOOLEAN }

FilterInit ==
    /\ avail = AllOff
    /\ Locals("off")
    /\ SanOff
    /\ RunOff
    /\ fTable \in FilterTables
    /\ fBackend = "none"
    /\ fKept = FALSE

FilterPyMuPDF ==
    /\ fBackend = "none"
    /\ fBackend' = "PyMuPDF"
    /\ fKept' = PyMuPDFKeeps(fTable)
    /\ UNCHANGED << fTable, mainVars, sanVars, runVars >>

FilterPdfplumber ==
    /\ fBackend = "none"
    /\ fBackend' = "pdfplumber"
    /\ fKept' = PdfplumberKeeps(fTable)
    /\ UNCHANGED << fTable, mainVars, sanVars, runVars >>

FilterTabula ==
    /\ fBackend = "none"
    /\ fBackend' = "tabula"
    /\ fKept' = TabulaKeeps(fTable)
    /\ UNCHANGED << fTable, mainVars, sanVars, runVars >>

FilterNext == FilterPyMuPDF \/ FilterPdfplumber \/ FilterTabula

SpecFilter == FilterInit /\ [][FilterNext]_vars

-----------------------------------------------------------------------------
(* One backend run on drawn documents *)

RunCat ==
    { Tbl(<< <<LblA, LblB>>, <<MarkHead, MarkTail>> >>, TRUE, TRUE),
      Tbl(<< <<LblA, LblB>>, <<MarkHead, MarkTail>> >>, FALSE, TRUE),
      Tbl(<< <<LblA, LblB>>, <<Marker, Kwh>>, <<Kwh, Kwh>> >>, TRUE, TRUE),
      Tbl(<< <<LblA, LblB>>, <<Kwh, Kwh>> >>, TRUE, TRUE),
      Tbl(<< <<Marker, LblB>>, <<Kwh, Kwh>> >>, FALSE, TRUE) }

RunViews ==
    { v \in SeqsUpTo([page : PageNums, tbl : RunCat], MaxTables) :
        \A i \in 1..Len(v) : \A j \in 1..Len(v) : i < j => v[i].page <= v[j].page }

RunInit ==
    /\ avail = AllOff
    /\ Locals("off")
    /\ SanOff
    /\ FilterOff
    /\ bView \in RunViews
    /\ bBackend = "none"
    /\ bOut = NoOut

RunPyMuPDF ==
    /\ bBackend = "none"
    /\ bBackend' = "PyMuPDF"
    /\ bOut' = process_pdf_with_pymupdf(bView)
    /\ UNCHANGED << bView, mainVars, sanVars, filterVars >>

RunPdfplumber ==
    /\ bBackend = "none"
    /\ bBackend' = "pdfplumber"
    /\ bOut' = process_pdf_with_pdfplumber(bView)
    /\ UNCHANGED << bView, mainVars, sanVars, filterVars >>

RunTabula ==
    /\ bBackend = "none"
    /\ bBackend' = "tabula"
    /\ bOut' = process_pdf_with_tabula(bView)
    /\ UNCHANGED << bView, mainVars, sanVars, filterVars >>

RunNext == RunPyMuPDF \/ RunPdfplumber \/ RunTabula

SpecBackend == RunInit /\ [][RunNext]_vars

-----------------------------------------------------------------------------
(* Properties *)

Done == pc = "done"
Index(b) == CHOOSE i \in 1..Len(Backends) : Backends[i] = b
Called(b) == b \in Range(invoked)
ExtractionOver == \A b \in BackendSet : hist[b].out # "notyet"

\* The text of the rows of a grid from row first on, cells and rows joined by one space.
GridText(grid, first) ==
    IF Len(grid) < first THEN << >>
    ELSE Join([i \in 1..(Len(grid) - first + 1) |->
                 Join([j \in 1..Len(grid[i + first - 1]) |->
                          StrOf(grid[i + first - 1][j])], SPACE)], SPACE)

IsCombined(f) == f.name = CombineName

RECURSIVE SumRows(_, _)
SumRows(files, n) ==
    IF n = 0 THEN 0 ELSE Len(files[n].dataframe.rows) + SumRows(files, n - 1)

RECURSIVE AllRows(_, _)
AllRows(files, n) ==
    IF n = 0 THEN << >> ELSE AllRows(files, n - 1) \o files[n].dataframe.rows

\* C1: the backends are tried in the order PyMuPDF, pdfplumber, tabula; a
\* backend is called exactly when it is available and no backend before it
\* returned a match, so none is called after a match and none that is not
\* available.
C1_FallbackOrder ==
    /\ \A i, j \in 1..Len(invoked) : i < j => Index(invoked[i]) < Index(invoked[j])
    /\ \A b \in BackendSet : Called(b) => avail[b]
    /\ \A b, c \in BackendSet :
          (Called(b) /\ hist[b].n > 0 /\ Index(b) < Index(c)) => ~Called(c)
    /\ ExtractionOver =>
          \A b \in BackendSet :
              Called(b) <=>
                  (avail[b] /\ \A a \in BackendSet : Index(a) < Index(b) => hist[a].n = 0)

C1_Witness ==
    /\ Done
    /\ invoked = << "PyMuPDF", "pdfplumber" >>
    /\ hist["PyMuPDF"].out = "returned" /\ hist["PyMuPDF"].n = 0
    /\ hist["pdfplumber"].n > 0
    /\ avail["tabula"]

\* C2: the labels sanitize_columns produces are pairwise distinct and none is empty.
C2_SanitizedUniqueNonEmpty ==
    sanDone =>
        /\ Len(sanOut) = Len(sanIn)
        /\ Unique(sanOut)
        /\ \A i \in 1..Len(sanOut) : sanOut[i] # << >> /\ ~IsNa(sanOut[i])

\* C3: when process_pdf has finished, on any exit path, the temporary file is gone.
C3_TempFileRemoved == Done => ~tmpExists

\* C4: when no table found by any backend holds the marker, process_pdf
\* returns no file and a match count of 0, whatever the availability flags
\* and whichever backends raised.
C4_NoMarkerNoOutput ==
    (Done /\ ret.kind = "returned" /\ ~markerSeen) =>
        ret.found = 0 /\ ret.files = << >>

C4_Witness ==
    /\ Done /\ ret.kind = "returned" /\ ~markerSeen
    /\ \E b \in BackendSet : hist[b].out = "raised"
    /\ \E b \in BackendSet : hist[b].out = "returned" /\ hist[b].total > 0

\* C5: a combined file is returned only with more than one match; with one
\* match there is none; with two or more matches of the same columns there is
\* exactly one, after the individual files, and its rows are the rows of the
\* matches stacked in match order.
C5_CombinedFile ==
    (Done /\ ret.kind = "returned") =>
        LET files == ret.files
            n == ret.found
        IN  /\ (\E i \in 1..Len(files) : IsCombined(files[i])) => n > 1
            /\ n = 1 => \A i \in 1..Len(files) : ~IsCombined(files[i])
            /\ (n >= 2 /\ Len(files) >= n
                  /\ \A i \in 1..n : files[i].dataframe.columns = files[1].dataframe.columns)
               => /\ Len(files) = n + 1
                  /\ IsCombined(files[n + 1])
                  /\ \A i \in 1..n : ~IsCombined(files[i])
                  /\ Len(files[n + 1].dataframe.rows) = SumRows(files, n)
                  /\ files[n + 1].dataframe.rows = AllRows(files, n)
            /\ n >= 2 => Len(files) >= n

C5_Witness ==
    /\ Done /\ ret.kind = "returned" /\ ret.found = 2
    /\ Len(ret.files) = 3
    /\ IsCombined(ret.files[3])
    /\ Len(ret.files[1].dataframe.rows) = 1
    /\ Len(ret.files[2].dataframe.rows) = 2
    /\ Len(ret.files[3].dataframe.rows) = 3

\* C6: a backend that raises does not end process_pdf: the next available
\* backend is still called, the matches of a later backend are what is
\* returned, and when every called backend raised the result is the no-match
\* outcome, not an exception.
C6_BackendFailureContained ==
    (Done /\ invoked # << >>) =>
        /\ (\E b \in BackendSet : hist[b].out = "raised") => ret.kind = "returned"
        /\ \A b, c \in BackendSet :
              (hist[b].out = "raised" /\ Index(b) < Index(c) /\ avail[c]
                 /\ \A a \in BackendSet : Index(a) < Index(c) => hist[a].n = 0)
              => Called(c)
        /\ \A b, c \in BackendSet :
              (hist[b].out = "raised" /\ Index(b) < Index(c) /\ hist[c].n > 0
                 /\ ~pkgFailed)
              => /\ ret.found = hist[c].n
                 /\ Len(ret.files) >= ret.found
                 /\ \A i \in 1..ret.found : ret.files[i].src = c
        /\ (\A b \in Range(invoked) : hist[b].out = "raised")
              => ret = Returned(<< >>, 0, 0)

C6_Witness ==
    /\ Done
    /\ hist["PyMuPDF"].out = "raised"
    /\ hist["pdfplumber"].out = "raised"
    /\ hist["tabula"].n > 0
    /\ ret.found = hist["tabula"].n
    /\ ret.files # << >>

\* C7: the returned list is empty, or it holds consommation_tableau_{idx}.csv
\* for every idx up to the returned match count, in order, followed at most by
\* the combined file; when packaging a match fails the list is empty and the
\* match count is 0.
C7_AllOrNothing ==
    Done =>
        LET files == ret.files
            n == ret.found
        IN  /\ \/ files = << >>
               \/ /\ Len(files) \in {n, n + 1}
                  /\ \A idx \in 1..n : files[idx].name = TableauName(idx)
                  /\ Len(files) = n + 1 => IsCombined(files[n + 1])
            /\ pkgFailed => files = << >> /\ n = 0

C7_Witness ==
    /\ Done /\ pkgFailed
    /\ csv_files # << >>
    /\ ret.files = << >> /\ ret.found = 0

\* C8: returned matches all come from one backend, and method_used and the
\* returned total_tables are that backend's, also after an earlier backend
\* found nothing or raised.
C8_SingleBackend ==
    /\ \A i \in 1..Len(resultats_intermediaires) :
          /\ resultats_intermediaires[i].src = method_used
          /\ hist[method_used].n = Len(resultats_intermediaires)
    /\ (Done /\ ret.kind = "returned" /\ ret.found > 0) =>
          \E b \in BackendSet :
              /\ hist[b].out = "returned" /\ hist[b].n = ret.found
              /\ \A c \in BackendSet \ {b} : hist[c].n = 0
              /\ method_used = b
              /\ ret.total = hist[b].total
              /\ \A i \in 1..Len(ret.files) :
                    ~IsCombined(ret.files[i]) => ret.files[i].src = b

C8_Witness ==
    /\ Done /\ ret.kind = "returned" /\ ret.found > 0
    /\ method_used = "tabula"
    /\ hist["PyMuPDF"].out = "returned" /\ hist["PyMuPDF"].total > 0
    /\ hist["pdfplumber"].out = "raised"
    /\ ret.total # hist["PyMuPDF"].total

\* C9: a table that has data rows is kept exactly when the marker occurs in
\* the text of all its rows, the header row included, cells and rows joined
\* by one space.
C9_KeptIffMarkerAnywhere ==
    (/\ fBackend # "none"
     /\ fTable.conv \/ fBackend = "tabula"
     /\ Len(fTable.grid) >= 2)
    => (fKept <=> Contains(GridText(fTable.grid, 1), Marker))

\* What the filter does instead: a table that converts is kept exactly when
\* the marker occurs in the text of its data rows, the header row left out;
\* a table that fails to convert is not kept.
C9_KeptIffMarkerInDataRows ==
    fBackend # "none" =>
        IF fTable.conv \/ fBackend = "tabula"
        THEN fKept <=> Contains(GridText(fTable.grid, 2), Marker)
        ELSE ~fKept

C9_Witness ==
    /\ fBackend = "pdfplumber" /\ fTable.conv
    /\ Len(fTable.grid) = 2
    /\ fTable.grid[1] = << Marker, << >> >>
    /\ fTable.grid[2] = << LowerHead, MarkTail >>
    /\ ~fKept

\* C10: in a run of PyMuPDF or pdfplumber the total counts every table of
\* every page, also those that fail to convert, and the matches are the
\* tables that convert and hold the marker in a data row, in page order.
Expected(view) ==
    SelectSeq(view, LAMBDA e : e.tbl.conv /\ Contains(GridText(e.tbl.grid, 2), Marker))

C10_ConversionFailureIsolated ==
    bBackend \in {"PyMuPDF", "pdfplumber"} =>
        LET exp == Expected(bView)
        IN  /\ bOut.total = Len(bView)
            /\ Len(bOut.res) = Len(exp)
            /\ \A i \in 1..Len(exp) :
                  /\ bOut.res[i].num = exp[i].page
                  /\ bOut.res[i].df = ToFrame(exp[i].tbl)

C10_Witness ==
    /\ bBackend = "pdfplumber"
    /\ Len(bView) = 2
    /\ ~bView[1].tbl.conv /\ bView[1].page = bView[2].page
    /\ bOut.total = 2
    /\ Len(bOut.res) = 1

=============================================================================
